---------------------------- MODULE Spec2Model ----------------------------
(***************************************************************************)
(* A model of the document harvester of app/services/viwanda_scraper.py:   *)
(* scrape_viwanda_save walks the listing pages (to_visit, visited_pages,   *)
(* pages_crawled), collects the file links in file_urls, preloads the      *)
(* content hashes of the files already in save_dir and then downloads      *)
(* every collected URL in sorted order through _download_and_dedupe.       *)
(*                                                                         *)
(* The remote site and the file system are the environment.  A page's     *)
(* markup and a file's bytes are fixed per URL but become known to the    *)
(* model only when the URL is first fetched successfully (site, served);   *)
(* whether a request succeeds is decided per request.  A download that    *)
(* fails does so at or after its request (save_dir.mkdir and the creation  *)
(* of the scratch file are taken to succeed), and leaves no file behind.   *)
(* A page's links are kept as a set: the walk only adds them to file_urls. *)
(*                                                                         *)
(* fetch_document_links_and_next is modelled on its own (ExtractSpec): the *)
(* parsed page is the sequence of its link and anchor elements, an href is *)
(* a sequence of lexical tokens, and the file links and the next-page URL  *)
(* are computed from them as the function computes them.                   *)
(***************************************************************************)
EXTENDS Naturals, Integers, Sequences, FiniteSets, TLC

\* ------------------------------------------------------------------ bounds
NPages == 2        \* page URLs 1..NPages; page 1 is the start page (page_url)
MaxPagesCap == 3   \* the argument max_pages ranges over 0..MaxPagesCap
NContents == 2     \* distinct byte strings a file URL may serve

Pages == 1..NPages
StartPage == 1
Contents == 1..NContents

\* A file URL is <<directory, filename>>: two URLs in different directories
\* can carry the same final path segment.
FileURLs == { <<1, 1>>, <<2, 1>> }

\* Names of the files a destination directory may hold before the run.  A
\* file name is a sequence: the URL's final path segment followed by the
\* numeric suffixes appended to its stem (<<1>> = "a.pdf", <<1, 1>> =
\* "a_1.pdf").
PreNames == { <<1>>, <<1, 1>> }

NoNext == 0        \* next_url = None
\* The markup of a page no fetch has returned yet.
NotFetched == [links |-> {}, next |-> -1]
NoPath == <<>>     \* no path: the empty name
\* None where a URL or an href is expected: an attribute that is not
\* there, no next page.
NoAttr == << "None" >>

VARIABLES
    \* ---- environment
    site,             \* page -> NotFetched | [links, next]: the page's markup
    served,           \* file URL -> 0 (not yet known) | the content it serves
    dirExists,        \* save_path.exists()
    files,            \* the regular files of save_dir: name -> [content, readable]
    \* ---- arguments of scrape_viwanda_save
    follow_pagination,
    max_pages,
    \* ---- locals of scrape_viwanda_save
    pc,               \* "walk" | "preload" | "download" | "done" | "thrown"
    to_visit,
    visited_pages,
    file_urls,
    pages_crawled,
    existing_hashes,  \* hash -> path
    todo,             \* the rest of sorted(file_urls) still to iterate
    saved,
    \* ---- history (observations of the run; never read by the program)
    run,              \* 1 for the first harvest, 2 for a re-run
    files0,           \* files before the first run
    filesRun1,        \* files when the first run ended (<<>> during run 1)
    outcomeRun1,      \* how the first run returned: "partial" (some request had
                      \* failed) or "clean"; "none" during run 1
    fetches,          \* page -> number of fetch attempts in this run
    failedPages,      \* pages whose fetch failed in this run
    requests,         \* file URL -> number of download requests in this run
    failedUrls,       \* file URLs whose download failed in this run
    result,           \* file URL -> path returned by _download_and_dedupe | NoPath
    written,          \* paths physically written (moved into save_dir) in this run
    \* ---- one call of fetch_document_links_and_next on its own
    soup,             \* the parsed markup: the link and anchor elements in
                      \* document order
    links,
    next_url,
    epc,              \* "idle" | "fetch" | "returned" | "request_failed" |
                      \* "parse_raised"
    \* ---- the calls of _download_and_dedupe, step by step
    cpc,              \* "idle" | "request" | "stream" | "hashed" | "move" |
                      \* "handler" | "returned" | "raised"
    scratch,          \* the scratch file: <<>> when there is none, else <<c>>,
                      \* c the content written (0: nothing or a part)
    ret               \* the path the call returned

env == <<site, served, dirExists, files>>
args == <<follow_pagination, max_pages>>
walk == <<to_visit, visited_pages, file_urls, pages_crawled>>
down == <<existing_hashes, todo, saved>>
obs == <<fetches, failedPages, requests, failedUrls, result, written>>
runs == <<run, files0, filesRun1, outcomeRun1>>
hist == <<runs, obs>>
extract == <<soup, links, next_url, epc>>
harvest == <<env, args, pc, walk, down, hist>>
call == <<cpc, scratch, ret>>
vars == <<harvest, extract, call>>

\* ----------------------------------------------------------- pure helpers

\* hashlib.sha256 over the bytes: a digest that is a function of the content
\* alone; digests of distinct contents are distinct (collision freedom).
Sha256(c) == <<"sha256", c>>

\* _hash_file(path) for a file of the directory `fs`.
HashFile(fs, name) == Sha256(fs[name].content)

\* _safe_filename_from_url: Path(urlparse(url).path).name; a file link's
\* path ends in an extension, so the name is never empty and the fallback
\* url.replace("/", "_") is taken only for an empty name.
SafeFilenameFromUrl(url) ==
    IF url[2] = 0 THEN <<url[1], url[2]>> ELSE <<url[2]>>

\* String order of two URLs with the same scheme and host.
UrlLess(u, v) == u[1] < v[1] \/ (u[1] = v[1] /\ u[2] < v[2])

\* sorted(file_urls)
RECURSIVE SortedUrls(_)
SortedUrls(S) ==
    IF S = {} THEN <<>>
    ELSE LET m == CHOOSE u \in S : \A v \in S \ {u} : UrlLess(u, v)
         IN <<m>> \o SortedUrls(S \ {m})

\* The while loop of _download_and_dedupe: the first i >= 1 for which
\* f"{base}_{i}{ext}" does not exist.
\* (faulty variant: the candidate is not tested for existence)
FirstFreeSuffix_NoSearch(fs, name, i) == i
RECURSIVE FirstFreeSuffix(_, _, _)
FirstFreeSuffix(fs, name, i) ==
    IF Append(name, i) \notin DOMAIN fs THEN i
    ELSE FirstFreeSuffix(fs, name, i + 1)

\* The target path chosen for a new file.
\* (faulty variant: an existing file of that name is overwritten)
TargetFor_Overwrites(fs, name) == name
TargetFor(fs, name) ==
    IF name \in DOMAIN fs THEN Append(name, FirstFreeSuffix(fs, name, 1))
    ELSE name

\* ------------------------------------------------------------------- Init

\* Directories a run can start from: absent, or holding at most two regular
\* files, each readable or not.
FileRecs == [content : Contents, readable : BOOLEAN]
InitDirs ==
    UNION { [D -> FileRecs] : D \in { D \in SUBSET PreNames : Cardinality(D) <= 2 } }

RunStart ==
    /\ pc = "walk"
    /\ to_visit = <<StartPage>>
    /\ visited_pages = {}
    /\ file_urls = {}
    /\ pages_crawled = 0
    /\ existing_hashes = <<>>
    /\ todo = <<>>
    /\ saved = <<>>
    /\ fetches = [p \in Pages |-> 0]
    /\ failedPages = {}
    /\ requests = [u \in FileURLs |-> 0]
    /\ failedUrls = {}
    /\ result = [u \in FileURLs |-> NoPath]
    /\ written = {}

HarvestInit ==
    /\ site = [p \in Pages |-> NotFetched]
    /\ served = [u \in FileURLs |-> 0]
    /\ dirExists \in BOOLEAN
    /\ files \in InitDirs
    /\ (~dirExists => files = <<>>)
    /\ follow_pagination \in BOOLEAN
    /\ max_pages \in 0..MaxPagesCap
    /\ run = 1
    /\ files0 = files
    /\ filesRun1 = <<>>
    /\ outcomeRun1 = "none"
    /\ RunStart

\* No call of the extractor on its own is under way.
ExtractIdle ==
    /\ soup = <<>>
    /\ links = <<>>
    /\ next_url = NoAttr
    /\ epc = "idle"

\* No call of _download_and_dedupe is followed step by step.
CallIdle ==
    /\ cpc = "idle"
    /\ scratch = <<>>
    /\ ret = NoPath

Init == HarvestInit /\ ExtractIdle /\ CallIdle

\* ---------------------------------------------------------------- actions

\* What fetch_document_links_and_next can return for a page: the file links
\* of its anchors and the URL of its next link (or None).
Responses == [links : SUBSET FileURLs, next : Pages \cup {NoNext}]

\* The condition of the while loop of the page walk.
\* (faulty variant: the cap compared with <=)
WalkContinues_OffByOne(q, crawled, maxp) == q # <<>> /\ crawled <= maxp
WalkContinues(q, crawled, maxp) == q # <<>> /\ crawled < maxp

\* visited_pages.add(url)
\* (faulty variants: the URL is not recorded; the set is overwritten)
MarkVisited_Forgets(visited, url) == visited
MarkVisited_Replaces(visited, url) == {url}
MarkVisited(visited, url) == visited \cup {url}

\* The queue after a page was processed: its next link is appended when
\* pagination is followed, a next link was found and it is not yet visited.
\* (faulty variants: the next link is dropped; the flag is not looked at;
\* the visited set is not looked at)
EnqueueNext_Never(q, follow, next, visited) == q
EnqueueNext_IgnoresFlag(q, follow, next, visited) ==
    IF next # NoNext /\ next \notin visited THEN Append(q, next) ELSE q
EnqueueNext_NoVisitedCheck(q, follow, next, visited) ==
    IF follow /\ next # NoNext THEN Append(q, next) ELSE q
EnqueueNext(q, follow, next, visited) ==
    IF follow /\ next # NoNext /\ next \notin visited
    THEN Append(q, next)
    ELSE q

\* The body of the try block of the walk, the fetch succeeding.
WalkFetch(resp) ==
    LET url == Head(to_visit) IN
    /\ site' = [site EXCEPT ![url] = resp]
    /\ file_urls' = file_urls \cup resp.links
    /\ to_visit' = EnqueueNext(Tail(to_visit), follow_pagination, resp.next,
                               visited_pages')
    /\ pc' = "walk"
    /\ UNCHANGED failedPages

\* fetch_document_links_and_next raises: the handler logs and the loop goes on.
\* (faulty variants: the failed page is put back on the queue; the
\* exception leaves the loop)
WalkFetchFails_Requeues ==
    /\ to_visit' = Append(Tail(to_visit), Head(to_visit))
    /\ failedPages' = failedPages \cup {Head(to_visit)}
    /\ pc' = "walk"
    /\ UNCHANGED <<site, file_urls>>
WalkFetchFails_Fatal ==
    /\ to_visit' = Tail(to_visit)
    /\ failedPages' = failedPages \cup {Head(to_visit)}
    /\ pc' = "thrown"
    /\ UNCHANGED <<site, file_urls>>
WalkFetchFails ==
    /\ to_visit' = Tail(to_visit)
    /\ failedPages' = failedPages \cup {Head(to_visit)}
    /\ pc' = "walk"
    /\ UNCHANGED <<site, file_urls>>

\* One iteration of the while loop of the page walk.
WalkStep ==
    /\ pc = "walk"
    /\ WalkContinues(to_visit, pages_crawled, max_pages)
    /\ LET url == Head(to_visit) IN
       IF url \in visited_pages
       THEN /\ to_visit' = Tail(to_visit)
            /\ UNCHANGED <<site, visited_pages, file_urls, pages_crawled,
                           fetches, failedPages, pc>>
       ELSE /\ visited_pages' = MarkVisited(visited_pages, url)
            /\ pages_crawled' = pages_crawled + 1
            /\ fetches' = [fetches EXCEPT ![url] = @ + 1]
            /\ \/ \E resp \in Responses :
                    /\ site[url] \in {NotFetched, resp}
                    /\ WalkFetch(resp)
               \/ WalkFetchFails
    /\ UNCHANGED <<served, dirExists, files, args, extract, call, down, runs, requests,
                   failedUrls, result, written>>

\* The while condition is false: the walk is over.
WalkEnd ==
    /\ pc = "walk"
    /\ ~WalkContinues(to_visit, pages_crawled, max_pages)
    /\ pc' = "preload"
    /\ UNCHANGED <<env, args, extract, call, walk, down, hist>>

ReadableNames(fs) == { n \in DOMAIN fs : fs[n].readable }
HashesOf(fs) == { HashFile(fs, n) : n \in ReadableNames(fs) }

\* The preload loop: every regular file of save_dir that can be hashed is
\* indexed (a file whose hashing raises is skipped); of several files with
\* one hash the one iterated last stays, and the order of iterdir() is the
\* file system's.  The set of indexes the loop can end with.
\* (faulty variant: nothing is preloaded)
PreloadIndexes_Empty(exists, fs) == { <<>> }
PreloadIndexes(exists, fs) ==
    IF exists
    THEN { e \in [HashesOf(fs) -> ReadableNames(fs)] :
             \A h \in DOMAIN e : HashFile(fs, e[h]) = h }
    ELSE { <<>> }

\* for link in sorted(file_urls)
\* (faulty variants: the URLs are taken in descending order; a URL whose
\* file name is already in save_dir is skipped)
DownloadOrder_Descending(urls, fs) ==
    LET up == SortedUrls(urls)
    IN  [ i \in 1..Len(up) |-> up[Len(up) + 1 - i] ]
DownloadOrder_SkipSaved(urls, fs) ==
    SortedUrls({ u \in urls : SafeFilenameFromUrl(u) \notin DOMAIN fs })
DownloadOrder(urls, fs) == SortedUrls(urls)

Preload ==
    /\ pc = "preload"
    /\ existing_hashes' \in PreloadIndexes(dirExists, files)
    /\ todo' = DownloadOrder(file_urls, files)
    /\ pc' = "download"
    /\ UNCHANGED <<env, args, extract, call, walk, saved, hist>>

\* Listing save_dir raises: outside the per-page and per-file handlers, so
\* the outer handler logs and re-raises.
\* (faulty variant: the outer handler logs and the function returns saved)
PreloadFails_Returns ==
    /\ pc = "preload"
    /\ dirExists
    /\ pc' = "done"
    /\ UNCHANGED <<env, args, extract, call, walk, down, hist>>
PreloadFails ==
    /\ pc = "preload"
    /\ dirExists
    /\ pc' = "thrown"
    /\ UNCHANGED <<env, args, extract, call, walk, down, hist>>

\* if file_hash in existing_hashes
\* (faulty variant: the index is not consulted)
IsDuplicate_Never(idx, h) == FALSE
IsDuplicate(idx, h) == h \in DOMAIN idx

\* existing_hashes[file_hash] = str(target)
\* (faulty variants: the new file is not indexed; the index is started
\* afresh with the new file)
IndexAdd_Forgets(idx, h, target) == idx
IndexAdd_Resets(idx, h, target) == [x \in {h} |-> target]
IndexAdd(idx, h, target) ==
    [x \in DOMAIN idx \cup {h} |-> IF x = h THEN target ELSE idx[x]]

\* shutil.move(tmp_path, target): the directory with the new file.
\* (faulty variant: the directory holds the new file alone)
MoveInto_Clears(fs, target, c) ==
    [n \in {target} |-> [content |-> c, readable |-> TRUE]]
MoveInto(fs, target, c) ==
    [n \in DOMAIN fs \cup {target} |->
        IF n = target THEN [content |-> c, readable |-> TRUE] ELSE fs[n]]

\* One iteration of the download loop, _download_and_dedupe(url) returning
\* a path; c is the byte string the URL serves.
DownloadOk(c) ==
    LET url == Head(todo)
        h == Sha256(c)
    IN
    /\ pc = "download" /\ todo # <<>>
    /\ served[url] \in {0, c}
    /\ served' = [served EXCEPT ![url] = c]
    /\ dirExists' = TRUE
    /\ requests' = [requests EXCEPT ![url] = @ + 1]
    /\ IF IsDuplicate(existing_hashes, h)
       THEN /\ result' = [result EXCEPT ![url] = existing_hashes[h]]
            /\ saved' = Append(saved, existing_hashes[h])
            /\ UNCHANGED <<files, existing_hashes, written>>
       ELSE LET target == TargetFor(files, SafeFilenameFromUrl(url)) IN
            /\ files' = MoveInto(files, target, c)
            /\ existing_hashes' = IndexAdd(existing_hashes, h, target)
            /\ result' = [result EXCEPT ![url] = target]
            /\ saved' = Append(saved, target)
            /\ written' = written \cup {target}
    /\ todo' = Tail(todo)
    /\ UNCHANGED <<site, args, extract, call, pc, walk, runs, fetches, failedPages, failedUrls>>

\* One iteration of the download loop, _download_and_dedupe(url) raising
\* (request error, bad status, I/O error on the scratch file or the move):
\* the scratch file is removed, the loop logs and goes on.
\* (faulty variant: the exception leaves the loop and the function)
DownloadFails_Fatal ==
    LET url == Head(todo) IN
    /\ pc = "download" /\ todo # <<>>
    /\ dirExists' = TRUE
    /\ requests' = [requests EXCEPT ![url] = @ + 1]
    /\ failedUrls' = failedUrls \cup {url}
    /\ todo' = Tail(todo)
    /\ pc' = "thrown"
    /\ UNCHANGED <<site, served, files, args, extract, call, walk, existing_hashes, saved,
                   runs, fetches, failedPages, result, written>>
DownloadFails ==
    LET url == Head(todo) IN
    /\ pc = "download" /\ todo # <<>>
    /\ dirExists' = TRUE
    /\ requests' = [requests EXCEPT ![url] = @ + 1]
    /\ failedUrls' = failedUrls \cup {url}
    /\ todo' = Tail(todo)
    /\ pc' = "download"
    /\ UNCHANGED <<site, served, files, args, extract, call, walk, existing_hashes, saved,
                   runs, fetches, failedPages, result, written>>

\* The for loop is over: return saved.
\* (faulty variant: the pages are harvested in batches of max_pages, the
\* walk resuming after the downloads while the queue is not empty)
Return_NextBatch ==
    /\ pc = "download" /\ todo = <<>>
    /\ pc' = IF to_visit = <<>> THEN "done" ELSE "walk"
    /\ pages_crawled' = 0
    /\ UNCHANGED <<env, args, extract, call, to_visit, visited_pages, file_urls,
                   down, hist>>
Return ==
    /\ pc = "download" /\ todo = <<>>
    /\ pc' = "done"
    /\ UNCHANGED <<env, args, extract, call, walk, down, hist>>

Next ==
    \/ WalkStep
    \/ WalkEnd
    \/ Preload
    \/ PreloadFails
    \/ \E c \in Contents : DownloadOk(c)
    \/ DownloadFails
    \/ Return

Spec == Init /\ [][Next]_vars

\* The runs into an empty or absent directory.  A sequential program keeps
\* running until it returns or throws: weak fairness of its steps.
InitEmptyDir == Init /\ files = <<>>
FairSpec == InitEmptyDir /\ [][Next]_vars /\ WF_vars(Next)

\* A second harvest with the same arguments, against the same site and the
\* directory the first one left when it returned.
Rerun ==
    /\ run = 1
    /\ pc = "done"
    /\ run' = 2
    /\ filesRun1' = files
    /\ outcomeRun1' = IF failedPages = {} /\ failedUrls = {} THEN "clean"
                      ELSE "partial"
    /\ pc' = "walk"
    /\ to_visit' = <<StartPage>>
    /\ visited_pages' = {}
    /\ file_urls' = {}
    /\ pages_crawled' = 0
    /\ existing_hashes' = <<>>
    /\ todo' = <<>>
    /\ saved' = <<>>
    /\ fetches' = [p \in Pages |-> 0]
    /\ failedPages' = {}
    /\ requests' = [u \in FileURLs |-> 0]
    /\ failedUrls' = {}
    /\ result' = [u \in FileURLs |-> NoPath]
    /\ written' = {}
    /\ UNCHANGED <<env, args, extract, call, files0>>

NextTwoRuns == Next \/ Rerun

\* The first run follows pagination and starts from a directory that is
\* absent, empty or holds one file under the name the file URLs carry.
InitTwoRuns == Init /\ follow_pagination /\ DOMAIN files \subseteq { <<1>> }
TwoRunSpec == InitTwoRuns /\ [][NextTwoRuns]_vars

\* ------------------------------------------------- the page link extractor

\* URLs and hrefs as fetch_document_links_and_next sees them: sequences of
\* tokens, each token one lexical piece of the string.  A token's spelling
\* tells its kind: "x:" a scheme, "//x" a network location, "/x" a path
\* segment, "?x" a query, "#x" a fragment, anything else a path piece
\* without a leading slash.
SchemeToks == { "https:", "javascript:" }
NetlocToks == { "//host" }
SlashToks == { "/documents", "/list", "/files", "/a.pdf", "/a.PDF", "/b.csv" }
BareToks == { "b.csv", "a.pdf", "void(0)" }
QueryToks == { "?page=2", "?f=a.pdf" }
FragmentToks == { "#", "#top" }

\* page_url: the page the markup was fetched from.
PageUrl == << "https:", "//host", "/documents", "/list" >>

\* str.lower() on a path token.
LowerTok(t) == IF t = "/a.PDF" THEN "/a.pdf" ELSE t

\* The characters a path token ends with, from its last dot on ("" when it
\* has no dot): what endswith(ext) compares with an extension.
TailOfTok(t) ==
    CASE t \in { "/a.pdf", "a.pdf" } -> ".pdf"
      [] t = "/a.PDF" -> ".PDF"
      [] t \in { "/b.csv", "b.csv" } -> ".csv"
      [] OTHER -> ""

\* "/x" for the bare path piece "x".
Slashed(t) ==
    CASE t = "b.csv" -> "/b.csv"
      [] t = "a.pdf" -> "/a.pdf"
      [] OTHER -> t

FILE_EXTENSIONS ==
    { ".pdf", ".xls", ".xlsx", ".csv", ".zip", ".doc", ".docx", ".txt" }

IsSchemeTok(t) == t \in SchemeToks
IsNetlocTok(t) == t \in NetlocToks
IsPathTok(t) == t \in SlashToks \cup BareToks
IsQueryTok(t) == t \in QueryToks
\* "#" alone carries an empty fragment, which urlparse does not keep.
IsFragmentTok(t) == t \in FragmentToks /\ t # "#"

\* urllib.parse.urlparse: the components of a URL, each a token sequence.
UrlParse(url) ==
    [ scheme |-> SelectSeq(url, IsSchemeTok),
      netloc |-> SelectSeq(url, IsNetlocTok),
      path |-> SelectSeq(url, IsPathTok),
      query |-> SelectSeq(url, IsQueryTok),
      fragment |-> SelectSeq(url, IsFragmentTok) ]

\* (parsed.path or "").lower()
LowerPath(path) == [ i \in 1..Len(path) |-> LowerTok(path[i]) ]

\* path.endswith(ext)
EndsWith(path, ext) == path # <<>> /\ TailOfTok(path[Len(path)]) = ext

\* _is_file_link(href); an empty href is falsy.
\* (faulty variant: the path is not lowercased)
IsFileLink_CaseSensitive(href) ==
    IF href = <<>> THEN FALSE
    ELSE \E ext \in FILE_EXTENSIONS : EndsWith(UrlParse(href).path, ext)
IsFileLink(href) ==
    IF href = <<>> THEN FALSE
    ELSE \E ext \in FILE_EXTENSIONS :
            EndsWith(LowerPath(UrlParse(href).path), ext)

\* Schemes urljoin resolves relative references for (uses_relative).
UsesRelative == { << "https:" >> }

\* All but the last segment of the base path.
BaseDir(path) == IF path = <<>> THEN <<>> ELSE SubSeq(path, 1, Len(path) - 1)

\* urllib.parse.urljoin(base, url)
Urljoin(base, url) ==
    LET b == UrlParse(base)
        u == UrlParse(url)
        scheme == IF u.scheme = <<>> THEN b.scheme ELSE u.scheme
    IN  IF url = <<>> THEN base
        ELSE IF scheme # b.scheme \/ scheme \notin UsesRelative THEN url
        ELSE IF u.netloc # <<>>
             THEN scheme \o u.netloc \o u.path \o u.query \o u.fragment
        ELSE IF u.path = <<>>
             THEN scheme \o b.netloc \o b.path
                  \o (IF u.query = <<>> THEN b.query ELSE u.query)
                  \o u.fragment
        ELSE IF u.path[1] \in SlashToks
             THEN scheme \o b.netloc \o u.path \o u.query \o u.fragment
        ELSE scheme \o b.netloc
             \o BaseDir(b.path) \o <<Slashed(u.path[1])>>
             \o SubSeq(u.path, 2, Len(u.path))
             \o u.query \o u.fragment

\* Text (an anchor's strings, a class token) is a sequence of characters.
LowerChar(ch) ==
    CASE ch = "N" -> "n" [] ch = "E" -> "e" [] ch = "X" -> "x"
      [] ch = "T" -> "t" [] ch = "O" -> "o" [] OTHER -> ch

\* str.lower()
Lower(str) == [ i \in 1..Len(str) |-> LowerChar(str[i]) ]

\* sub in str
Contains(sub, str) ==
    \E i \in 0..(Len(str) - Len(sub)) : SubSeq(str, i + 1, i + Len(sub)) = sub

\* " ".join(tokens)
RECURSIVE JoinSpace(_)
JoinSpace(tokens) ==
    IF tokens = <<>> THEN <<>>
    ELSE IF Len(tokens) = 1 THEN tokens[1]
    ELSE tokens[1] \o <<" ">> \o JoinSpace(Tail(tokens))

NextWord == << "n", "e", "x", "t" >>

NoClass == [present |-> FALSE, tokens |-> <<>>]

\* The argument has_next_class is called with: None, a list of tokens or
\* one string (val holds the tokens, or the string as its only member).
ClassNone == [shape |-> "none", val |-> <<>>]
ClassList(tokens) == [shape |-> "list", val |-> tokens]
ClassStr(str) == [shape |-> "str", val |-> <<str>>]

\* has_next_class(c): whether the call raises and, if not, what it returns.
\* (faulty variant: None is not tested for and c.lower() raises on it)
HasNextClass_NoNoneCheck(c) ==
    IF c.shape = "list"
    THEN [raises |-> FALSE,
          value |-> Contains(NextWord, Lower(JoinSpace(c.val)))]
    ELSE IF c.shape = "none" THEN [raises |-> TRUE, value |-> FALSE]
    ELSE [raises |-> FALSE, value |-> Contains(NextWord, Lower(c.val[1]))]
HasNextClass(c) ==
    IF c.shape = "none" THEN [raises |-> FALSE, value |-> FALSE]
    ELSE IF c.shape = "list"
    THEN [raises |-> FALSE,
          value |-> Contains(NextWord, Lower(JoinSpace(c.val)))]
    ELSE [raises |-> FALSE, value |-> Contains(NextWord, Lower(c.val[1]))]

\* What find(class_=has_next_class) passes to the function for one element:
\* None when the element has no class attribute, else every token and the
\* tokens joined by spaces.
ClassArgs(el) ==
    IF ~el.class.present THEN { ClassNone }
    ELSE { ClassStr(el.class.tokens[i]) : i \in 1..Len(el.class.tokens) }
         \cup { ClassStr(JoinSpace(el.class.tokens)) }

ClassRaises(el) == \E c \in ClassArgs(el) : HasNextClass(c).raises
ClassMatches(el) == \E c \in ClassArgs(el) : HasNextClass(c).value

\* Tag.string: the element's only string when it has exactly one child (a
\* string, or a tag with one string), else None; None and "" are both
\* falsy for the lambda of the text rule and are both <<>> here.
TagString(el) ==
    IF Len(el.children) = 1 THEN el.children[1].s ELSE <<>>

\* lambda t: t and "next" in t.lower(), applied to the element's string
TextMatches(el) ==
    LET t == TagString(el) IN t # <<>> /\ Contains(NextWord, Lower(t))

\* rel="next": one of the tokens of the rel attribute is "next"
RelMatches(el) == \E i \in 1..Len(el.rel) : el.rel[i] = "next"

\* soup.find: the first of the positions of the elements that match, 0 for
\* None
FindFirst(S) == IF S = {} THEN 0 ELSE CHOOSE i \in S : \A j \in S : i <= j

IsRelNextLink(el) == el.tag = "link" /\ RelMatches(el)
IsRelNextAnchor(el) == el.tag = "a" /\ RelMatches(el)
IsTextNextAnchor(el) == el.tag = "a" /\ TextMatches(el)
IsClassNextAnchor(el) == el.tag = "a" /\ ClassMatches(el)
IsClassRaisingAnchor(el) == el.tag = "a" /\ ClassRaises(el)

\* The results of the four calls of soup.find.
FindRelLink(doc) == FindFirst({ i \in 1..Len(doc) : IsRelNextLink(doc[i]) })
FindRelAnchor(doc) == FindFirst({ i \in 1..Len(doc) : IsRelNextAnchor(doc[i]) })
FindByText(doc) == FindFirst({ i \in 1..Len(doc) : IsTextNextAnchor(doc[i]) })
FindByClass(doc) == FindFirst({ i \in 1..Len(doc) : IsClassNextAnchor(doc[i]) })

\* `a or b`, `if not a: a = b`: a when it found something
OrElse(a, b) == IF a # 0 THEN a ELSE b

\* next_link of fetch_document_links_and_next: the rel rule (a link
\* element before an anchor), then the text rule, then the class rule.
NextLink(doc) ==
    OrElse(OrElse(FindRelLink(doc), FindRelAnchor(doc)),
           OrElse(FindByText(doc), FindByClass(doc)))

\* Whether the search for next_link raises: the class rule is the only one
\* that calls has_next_class, it is reached when the other rules found
\* nothing, and it stops at its first match.
NextLinkRaises(doc) ==
    /\ OrElse(OrElse(FindRelLink(doc), FindRelAnchor(doc)), FindByText(doc)) = 0
    /\ LET r == FindFirst({ i \in 1..Len(doc) : IsClassRaisingAnchor(doc[i]) })
           m == FindByClass(doc)
       IN r # 0 /\ (m = 0 \/ r <= m)

\* if next_link and next_link.get("href"): urljoin(page_url, href)
NextUrl(doc) ==
    LET i == NextLink(doc) IN
    IF i # 0 /\ doc[i].href # NoAttr /\ doc[i].href # <<>>
    THEN Urljoin(PageUrl, doc[i].href)
    ELSE NoAttr

\* links.append(urljoin(page_url, href))
\* (faulty variant: a URL already in the list is not appended again)
AppendLink_Unique(lst, url) ==
    IF \E i \in 1..Len(lst) : lst[i] = url THEN lst ELSE Append(lst, url)
AppendLink(lst, url) == Append(lst, url)

\* The loop over soup.find_all("a", href=True): the links of the first n
\* elements.
RECURSIVE FileLinks(_, _)
FileLinks(doc, n) ==
    IF n = 0 THEN <<>>
    ELSE LET el == doc[n]
             before == FileLinks(doc, n - 1)
         IN  IF el.tag = "a" /\ el.href # NoAttr /\ IsFileLink(el.href)
             THEN AppendLink(before, Urljoin(PageUrl, el.href))
             ELSE before

\* The strings of the modelled pages.
sNext == << "N", "e", "x", "t" >>
sOld == << "O", "l", "d" >>
sGet == << "G", "e", "t" >>
sTwo == << "2" >>
cPg == << "p", "g" >>
cNEXT == << "N", "E", "X", "T" >>

Txt(str) == [kind |-> "text", s |-> str]
\* An empty child element such as <i></i>.
Icon == [kind |-> "tag", s |-> <<>>]
Class(tokens) == [present |-> TRUE, tokens |-> tokens]
Anchor(href, rel, children, class) ==
    [tag |-> "a", href |-> href, rel |-> rel, children |-> children,
     class |-> class]

\* The hrefs of the anchors that stand for documents and other targets.
FileHrefs ==
    { <<>>, << "#" >>,
      << "javascript:", "void(0)" >>, << "javascript:", "a.pdf" >>,
      << "/files", "/a.pdf" >>, << "/files", "/a.PDF" >>,
      << "https:", "//host", "/files", "/a.pdf" >>,
      << "/files", "/a.pdf", "#top" >>,
      << "b.csv" >>,
      << "/list", "?f=a.pdf" >>, << "/list" >>,
      NoAttr }
FileAnchors == { Anchor(h, <<>>, << Txt(sGet) >>, NoClass) : h \in FileHrefs }

\* Pagination elements: one or two for every rule, with and without href,
\* and anchors no rule applies to.
RelLink ==
    [tag |-> "link", href |-> << "?page=2" >>, rel |-> << "next" >>,
     children |-> <<>>, class |-> NoClass]
RelAnchor == Anchor(<< "/list", "?page=2" >>, << "next" >>, << Txt(sTwo) >>, NoClass)
RelAnchorNoHref == Anchor(NoAttr, << "next" >>, << Txt(sTwo) >>, NoClass)
TextAnchor == Anchor(<< "/documents", "?page=2" >>, <<>>, << Txt(sNext) >>, NoClass)
MixedTextAnchor ==
    Anchor(<< "/documents", "/list", "?page=2" >>, <<>>, << Txt(sNext), Icon >>,
           NoClass)
ClassAnchor ==
    Anchor(<< "/files", "?page=2" >>, <<>>, << Txt(sTwo) >>, Class(<< cPg, cNEXT >>))
OtherClassAnchor == Anchor(<< "/files" >>, <<>>, << Txt(sTwo) >>, Class(<< cPg >>))
BareAnchor == Anchor(NoAttr, <<>>, << Txt(sOld) >>, NoClass)
NavElements ==
    { RelLink, RelAnchor, RelAnchorNoHref, TextAnchor, MixedTextAnchor,
      ClassAnchor, OtherClassAnchor, BareAnchor }

Elements == FileAnchors \cup NavElements

MaxElements == 3   \* a page has at most MaxElements link and anchor elements
Markups == UNION { [1..n -> Elements] : n \in 0..MaxElements }

\* The call once resp.text is parsed: links and next_url are computed and
\* returned, unless the search for the next link raises.
FetchParses ==
    /\ epc = "fetch"
    /\ IF NextLinkRaises(soup)
       THEN /\ epc' = "parse_raised"
            /\ UNCHANGED <<links, next_url>>
       ELSE /\ links' = FileLinks(soup, Len(soup))
            /\ next_url' = NextUrl(soup)
            /\ epc' = "returned"
    /\ UNCHANGED <<soup, harvest, call>>

\* requests.get or raise_for_status raises.
FetchRequestFails ==
    /\ epc = "fetch"
    /\ epc' = "request_failed"
    /\ UNCHANGED <<soup, links, next_url, harvest, call>>

ExtractNext == FetchParses \/ FetchRequestFails

\* One call of fetch_document_links_and_next(PageUrl) for each markup the
\* page can have; no harvest is running.
ExtractInit ==
    /\ HarvestInit /\ ~dirExists /\ follow_pagination /\ max_pages = MaxPagesCap
    /\ CallIdle
    /\ soup \in Markups
    /\ links = <<>>
    /\ next_url = NoAttr
    /\ epc = "fetch"
ExtractSpec == ExtractInit /\ [][ExtractNext]_vars

\* ------------------------------------- _download_and_dedupe, step by step

\* The download loop of scrape_viwanda_save with each call of
\* _download_and_dedupe followed statement by statement: the scratch file
\* is created, the request is made, the body is streamed into the scratch
\* file and hashed, the hash is looked up, the scratch file is unlinked or
\* moved, and the except clause unlinks it when anything raised.
\* shutil.move either moves the file or raises leaving save_dir as it was,
\* and Path.unlink removes the file it is given.

\* tmp_path.unlink(missing_ok=True): the scratch file afterwards.
\* (faulty variant: the file is left where it is)
Unlink_Keeps(scr) == scr
Unlink(scr) == <<>>

\* save_dir.mkdir(...), tempfile.NamedTemporaryFile(delete=False),
\* tmp.close(): an empty scratch file exists.
CallEnter ==
    /\ pc = "download" /\ cpc = "idle" /\ todo # <<>>
    /\ dirExists' = TRUE
    /\ scratch' = <<0>>
    /\ cpc' = "request"
    /\ UNCHANGED <<site, served, files, args, extract, pc, walk, down, hist,
                   ret>>

\* The scratch file cannot be created: the call raises before its try
\* block is entered.
CallEnterFails ==
    /\ pc = "download" /\ cpc = "idle" /\ todo # <<>>
    /\ dirExists' = TRUE
    /\ cpc' = "raised"
    /\ UNCHANGED <<site, served, files, args, extract, pc, walk, down, hist,
                   scratch, ret>>

\* requests.get(url, stream=True) and raise_for_status() pass; c is the
\* byte string the URL serves.
CallRequestOk(c) ==
    LET url == Head(todo) IN
    /\ cpc = "request"
    /\ served[url] \in {0, c}
    /\ served' = [served EXCEPT ![url] = c]
    /\ requests' = [requests EXCEPT ![url] = @ + 1]
    /\ cpc' = "stream"
    /\ UNCHANGED <<site, dirExists, files, args, extract, pc, walk, down,
                   runs, fetches, failedPages, failedUrls, result, written,
                   scratch, ret>>

\* requests.get or raise_for_status() raises.
CallRequestFails ==
    LET url == Head(todo) IN
    /\ cpc = "request"
    /\ requests' = [requests EXCEPT ![url] = @ + 1]
    /\ cpc' = "handler"
    /\ UNCHANGED <<env, args, extract, pc, walk, down, runs, fetches,
                   failedPages, failedUrls, result, written, scratch, ret>>

\* Every chunk is written to the scratch file and fed to the hasher.
CallStreamOk ==
    /\ cpc = "stream"
    /\ scratch' = <<served[Head(todo)]>>
    /\ cpc' = "hashed"
    /\ UNCHANGED <<harvest, extract, ret>>

\* Reading a chunk or writing it raises: the scratch file holds a part.
CallStreamFails ==
    /\ cpc = "stream"
    /\ scratch' = <<0>>
    /\ cpc' = "handler"
    /\ UNCHANGED <<harvest, extract, ret>>

\* if file_hash in existing_hashes: unlink the scratch file and return the
\* indexed path.  Otherwise the target is worked out and the move is next.
CallDedupe ==
    LET h == Sha256(scratch[1]) IN
    /\ cpc = "hashed"
    /\ IF IsDuplicate(existing_hashes, h)
       THEN /\ scratch' = Unlink(scratch)
            /\ ret' = existing_hashes[h]
            /\ cpc' = "returned"
       ELSE /\ cpc' = "move"
            /\ UNCHANGED <<scratch, ret>>
    /\ UNCHANGED <<harvest, extract>>

\* shutil.move(tmp_path, target); existing_hashes[file_hash] = str(target);
\* return target.
CallMoveOk ==
    LET c == scratch[1]
        target == TargetFor(files, SafeFilenameFromUrl(Head(todo)))
    IN
    /\ cpc = "move"
    /\ files' = MoveInto(files, target, c)
    /\ scratch' = <<>>
    /\ existing_hashes' = IndexAdd(existing_hashes, Sha256(c), target)
    /\ written' = written \cup {target}
    /\ ret' = target
    /\ cpc' = "returned"
    /\ UNCHANGED <<site, served, dirExists, args, extract, pc, walk, todo,
                   saved, runs, fetches, failedPages, requests, failedUrls,
                   result>>

\* shutil.move raises.
\* (faulty variant: the hash was put in the index before the move)
CallMoveFails_Registered ==
    LET c == scratch[1]
        target == TargetFor(files, SafeFilenameFromUrl(Head(todo)))
    IN
    /\ cpc = "move"
    /\ existing_hashes' = IndexAdd(existing_hashes, Sha256(c), target)
    /\ cpc' = "handler"
    /\ UNCHANGED <<env, args, extract, pc, walk, todo, saved, hist, scratch,
                   ret>>
CallMoveFails ==
    /\ cpc = "move"
    /\ cpc' = "handler"
    /\ UNCHANGED <<harvest, extract, scratch, ret>>

\* except Exception: tmp_path.unlink(missing_ok=True); raise
CallHandler ==
    /\ cpc = "handler"
    /\ scratch' = Unlink(scratch)
    /\ cpc' = "raised"
    /\ UNCHANGED <<harvest, extract, ret>>

\* saved.append(str(saved_path)), and the loop goes to the next link.
LoopAppends ==
    LET url == Head(todo) IN
    /\ cpc = "returned"
    /\ saved' = Append(saved, ret)
    /\ result' = [result EXCEPT ![url] = ret]
    /\ todo' = Tail(todo)
    /\ ret' = NoPath
    /\ cpc' = "idle"
    /\ UNCHANGED <<env, args, extract, pc, walk, existing_hashes, runs,
                   fetches, failedPages, requests, failedUrls, written,
                   scratch>>

\* except Exception as e: logger.error(...), and the loop goes to the next
\* link.
LoopLogs ==
    LET url == Head(todo) IN
    /\ cpc = "raised"
    /\ failedUrls' = failedUrls \cup {url}
    /\ todo' = Tail(todo)
    /\ cpc' = "idle"
    /\ UNCHANGED <<env, args, extract, pc, walk, existing_hashes, saved, runs,
                   fetches, failedPages, requests, result, written, scratch,
                   ret>>

CallNext ==
    \/ CallEnter
    \/ CallEnterFails
    \/ \E c \in Contents : CallRequestOk(c)
    \/ CallRequestFails
    \/ CallStreamOk
    \/ CallStreamFails
    \/ CallDedupe
    \/ CallMoveOk
    \/ CallMoveFails
    \/ CallHandler
    \/ LoopAppends
    \/ LoopLogs
    \/ Return

\* The download loop is about to start: the walk fetched the start page,
\* which has no next link, and the directory was preloaded.
CallInit ==
    /\ \E L \in SUBSET FileURLs :
          /\ L # {}
          /\ site = [p \in Pages |->
                       IF p = StartPage THEN [links |-> L, next |-> NoNext]
                       ELSE NotFetched]
          /\ file_urls = L
          /\ todo = DownloadOrder(L, files)
    /\ served = [u \in FileURLs |-> 0]
    /\ dirExists \in BOOLEAN
    /\ files \in InitDirs
    /\ (~dirExists => files = <<>>)
    /\ follow_pagination \in BOOLEAN
    /\ max_pages \in 1..MaxPagesCap
    /\ run = 1
    /\ files0 = files
    /\ filesRun1 = <<>>
    /\ outcomeRun1 = "none"
    /\ pc = "download"
    /\ to_visit = <<>>
    /\ visited_pages = {StartPage}
    /\ pages_crawled = 1
    /\ existing_hashes \in PreloadIndexes(dirExists, files)
    /\ saved = <<>>
    /\ fetches = [p \in Pages |-> IF p = StartPage THEN 1 ELSE 0]
    /\ failedPages = {}
    /\ requests = [u \in FileURLs |-> 0]
    /\ failedUrls = {}
    /\ result = [u \in FileURLs |-> NoPath]
    /\ written = {}
    /\ ExtractIdle
    /\ CallIdle

CallSpec == CallInit /\ [][CallNext]_vars

\* ------------------------------------------------------------- properties

\* How often a path occurs in the returned list.
Occurrences(seq, p) == Cardinality({ i \in 1..Len(seq) : seq[i] = p })

\* The paths written in this run that hold the content c.
WrittenWith(c) == { p \in written : files[p].content = c }

\* No two files of a directory have the same content hash.
NoTwoAlike(fs) ==
    \A m, n \in DOMAIN fs : m # n => HashFile(fs, m) # HashFile(fs, n)

\* Every file of a directory can be hashed.
AllReadable(fs) == \A n \in DOMAIN fs : fs[n].readable

\* The URLs whose download has returned a path in this run.
Downloaded == { u \in FileURLs : result[u] # NoPath }

C6_VisitedGrowsFetchedOnce ==
    /\ [][visited_pages \subseteq visited_pages']_vars
    /\ [](\A p \in Pages : fetches[p] <= 1)

\* Page 2's next link leads back to page 1; both were fetched once and the
\* walk ended below the cap.
C6_Witness ==
    /\ pc = "preload"
    /\ follow_pagination
    /\ site[2].next = 1
    /\ \A p \in {1, 2} : fetches[p] = 1
    /\ pages_crawled < max_pages

\* C7: the page walk ends; and with max_pages above the number of distinct
\* pages it ends by running out of pages, not by the cap: whatever the next
\* links, the queue is empty and no more pages were crawled than exist.
C7_WalkTerminates ==
    /\ <>(pc # "walk")
    /\ [](pc = "preload" /\ max_pages > NPages
            => to_visit = <<>> /\ pages_crawled <= NPages)

\* The start page's next link is the start page itself, max_pages is above
\* the number of pages, and the walk has ended after one page.
C7_Witness ==
    /\ pc = "preload"
    /\ follow_pagination
    /\ site[StartPage].next = StartPage
    /\ max_pages > NPages
    /\ pages_crawled = 1

RECURSIVE SumFetches(_)
SumFetches(S) ==
    IF S = {} THEN 0
    ELSE LET p == CHOOSE x \in S : TRUE IN fetches[p] + SumFetches(S \ {p})

\* The URLs the download loop has taken or still holds.
Range(seq) == { seq[i] : i \in 1..Len(seq) }
Requested == { u \in FileURLs : requests[u] > 0 }

\* C8: the page fetch attempts of a run, successful or failed, never exceed
\* max_pages; with max_pages = 1 only the start page is fetched; when the
\* cap is reached with a page still queued the walk ends without error and
\* the links collected so far are what the download loop iterates.
C8_PageCapIsHard ==
    /\ [](/\ SumFetches(Pages) <= max_pages
          /\ pages_crawled = SumFetches(Pages)
          /\ (max_pages = 1 => \A p \in Pages \ {StartPage} : fetches[p] = 0)
          /\ (pc = "download" => Range(todo) \cup Requested = file_urls))
    /\ [][(pc = "walk" /\ to_visit # <<>> /\ pages_crawled >= max_pages)
            => (pc' = "preload" /\ file_urls' = file_urls)]_vars

\* The cap of one page was reached with the next page queued, and the
\* start page's links are being downloaded.
C8_Witness ==
    /\ pc = "download"
    /\ max_pages = 1 /\ pages_crawled = 1
    /\ to_visit = <<2>>
    /\ file_urls # {}
    /\ Requested # {}

\* The pages on the next-link chain from the start page, as far as the
\* markup is known: the chain stops at a page without next link, at a page
\* already on it, or at a page no fetch has returned.
RECURSIVE Chain(_, _)
Chain(p, seen) ==
    IF p \in seen THEN seen
    ELSE IF site[p] = NotFetched \/ site[p].next = NoNext THEN seen \cup {p}
    ELSE Chain(site[p].next, seen \cup {p})
ChainPages == Chain(StartPage, {})

\* C9: with pagination followed, no page fetch failing and at most
\* max_pages distinct pages on the next-link chain from the start page,
\* the walk has fetched every page of the chain and file_urls is exactly
\* the union of their file links.
C9_WalkCollectsAllLinks ==
    (/\ pc # "walk"
     /\ follow_pagination
     /\ failedPages = {}
     /\ Cardinality(ChainPages) <= max_pages)
    => /\ \A p \in ChainPages : site[p] # NotFetched
       /\ file_urls = UNION { site[p].links : p \in ChainPages }

\* Two pages with different file links, the second leading back to the
\* first, walked with max_pages equal to the length of the chain.
C9_Witness ==
    /\ pc = "preload"
    /\ follow_pagination /\ failedPages = {}
    /\ ChainPages = {1, 2} /\ max_pages = 2
    /\ site[1].links # {} /\ site[2].links # {}
    /\ site[1].links # site[2].links
    /\ site[2].next = 1

\* C10: the step at which a page fetch fails throws nothing, adds no file
\* link, enqueues no next page and leaves the rest of the queue to the
\* walk; a run with failed pages that returns has requested every link
\* collected from the other pages.
C10_PageFailureNotFatal ==
    /\ [][failedPages' # failedPages
            => /\ pc' = "walk"
               /\ file_urls' = file_urls
               /\ to_visit' = Tail(to_visit)]_vars
    /\ []((pc = "done" /\ failedPages # {})
            => \A u \in file_urls : requests[u] = 1)

\* The fetch of page 2 failed; the link found on page 1 was downloaded and
\* the run has returned.
C10_Witness ==
    /\ pc = "done"
    /\ failedPages = {2}
    /\ Downloaded # {}
    /\ Downloaded = file_urls

\* C11: a file download that fails is not fatal.  The step on which a
\* download fails adds no entry to the returned list, writes no file and
\* leaves the loop running on the remaining URLs; a run with failed
\* downloads still returns, and by then every discovered URL, also those
\* sorted after a failed one, has been requested and no failed URL has an
\* entry.
C11_FailedDownloadSkipped ==
    /\ [][failedUrls' # failedUrls =>
            /\ pc' = "download"
            /\ saved' = saved /\ files' = files
            /\ todo' = Tail(todo)]_vars
    /\ [](pc = "done" =>
            /\ \A u \in file_urls : requests[u] = 1
            /\ \A u \in failedUrls : result[u] = NoPath
            /\ Len(saved) = Cardinality(file_urls \ failedUrls))

\* A run returned after its first download failed and a later one was
\* attempted and saved.
C11_Witness ==
    /\ pc = "done"
    /\ failedUrls = { <<1, 1>> }
    /\ file_urls = FileURLs
    /\ result[<<2, 1>>] # NoPath
    /\ Len(saved) = 1

\* C12: when a run returns, the returned list has exactly one entry for
\* every discovered URL whose download succeeded, in the order of the
\* downloads, and none for any other URL; every returned path names a file
\* that is in the directory at that moment and holds the bytes served for
\* its URL, be it a new file or a file matched by content.
C12_ReturnedPathsAreTheFiles ==
    pc = "done" =>
        LET ok == SortedUrls(file_urls \ failedUrls) IN
        /\ Downloaded = file_urls \ failedUrls
        /\ Len(saved) = Len(ok)
        /\ \A i \in 1..Len(ok) : saved[i] = result[ok[i]]
        /\ \A u \in Downloaded :
              /\ result[u] \in DOMAIN files
              /\ files[result[u]].content = served[u]

\* Two URLs serving different bytes were both downloaded: one matched a
\* file the directory already held, the other was written under a new name.
C12_Witness ==
    /\ pc = "done"
    /\ Downloaded = FileURLs
    /\ served[<<1, 1>>] # served[<<2, 1>>]
    /\ result[<<1, 1>>] \in DOMAIN files0
    /\ result[<<2, 1>>] \in written
    /\ Len(saved) = 2

\* C13: a run into a directory that was empty (or absent), in which every
\* page fetch and every download succeeded, leaves as many files as the
\* discovered URLs serve distinct contents: a URL linked from several pages
\* is downloaded once and URLs with equal bytes share one file.
C13_FilesCountDistinctContents ==
    (pc = "done" /\ files0 = <<>> /\ failedPages = {} /\ failedUrls = {}) =>
        Cardinality(DOMAIN files) =
            Cardinality({ served[u] : u \in file_urls })

\* Page 1 links file A, page 2 links A and B, A and B serve different
\* bytes: two files.
C13_Witness ==
    /\ pc = "done" /\ files0 = <<>>
    /\ failedPages = {} /\ failedUrls = {}
    /\ site[1] = [links |-> { <<1, 1>> }, next |-> 2]
    /\ site[2].links = FileURLs
    /\ served[<<1, 1>>] # served[<<2, 1>>]
    /\ Cardinality(DOMAIN files) = 2

\* C14: after any run that returns, the destination directory exists,
\* whether or not a file link was discovered or a download succeeded.
C14_DirectoryExistsAfterRun == pc = "done" => dirExists

\* ---- the extractor: what a page's anchors are, said without the code

\* The position in an href of the last token of its path, 0 without a path.
LastPathTok(h) ==
    IF \E i \in 1..Len(h) : IsPathTok(h[i])
    THEN CHOOSE i \in 1..Len(h) :
            IsPathTok(h[i]) /\ \A j \in (i + 1)..Len(h) : ~IsPathTok(h[j])
    ELSE 0

\* The href has a path that ends, whatever the case of its letters, in an
\* allow-listed extension.
HasFilePath(h) ==
    /\ h # NoAttr
    /\ LastPathTok(h) # 0
    /\ TailOfTok(LowerTok(h[LastPathTok(h)])) \in FILE_EXTENSIONS

\* The positions of the anchors of the page that carry such an href.
FileAnchorsAt(doc) ==
    { i \in 1..Len(doc) : doc[i].tag = "a" /\ HasFilePath(doc[i].href) }

\* The k-th member of a set of positions.
Nth(S, k) == CHOOSE i \in S : Cardinality({ j \in S : j <= i }) = k

\* The href is empty, is "#" alone or has the javascript: scheme.
IsInertHref(h) ==
    h = <<>> \/ h = << "#" >> \/ (h # <<>> /\ h[1] = "javascript:")

\* C15: the extractor never lists an anchor whose href is empty, is "#"
\* alone or uses the javascript: scheme, whatever follows the scheme: what
\* such an href resolves to is not among the links.
C15_InertHrefsNeverListed ==
    epc = "returned" =>
        \A i \in 1..Len(soup) :
            (soup[i].tag = "a" /\ IsInertHref(soup[i].href)) =>
                \A k \in 1..Len(links) :
                    links[k] # Urljoin(PageUrl, soup[i].href)

\* C16: a page with N anchors whose href path ends, whatever the case, in
\* an allow-listed extension and M other anchors yields exactly N links;
\* the links are the hrefs of those N anchors resolved against the page
\* URL (a relative path against the page's directory, an absolute path
\* against its host), and nothing of the M others.
C16_OneLinkPerFileAnchor ==
    epc = "returned" =>
        LET F == FileAnchorsAt(soup) IN
        /\ Len(links) = Cardinality(F)
        /\ Range(links) = { Urljoin(PageUrl, soup[i].href) : i \in F }
        /\ \A i \in F :
              /\ soup[i].href = << "b.csv" >> =>
                    << "https:", "//host", "/documents", "/b.csv" >>
                        \in Range(links)
              /\ soup[i].href = << "/files", "/a.PDF" >> =>
                    << "https:", "//host", "/files", "/a.PDF" >>
                        \in Range(links)

\* A page with two file anchors (an upper-case extension, a relative
\* path) and one anchor to another page: two links.
C16_Witness ==
    /\ epc = "returned"
    /\ Len(soup) = 3
    /\ soup[1].href = << "/files", "/a.PDF" >>
    /\ soup[2].href = << "/list" >>
    /\ soup[3].href = << "b.csv" >>
    /\ links = << << "https:", "//host", "/files", "/a.PDF" >>,
                  << "https:", "//host", "/documents", "/b.csv" >> >>

\* C17 (as stated): the links of a page are in document order and no URL
\* occurs more than once, also when several anchors carry one file href.
C17_LinksOrderedUnique ==
    epc = "returned" =>
        /\ \A k, l \in 1..Len(links) : k # l => links[k] # links[l]
        /\ \A k \in 1..Len(links) :
              \E i \in FileAnchorsAt(soup) :
                 links[k] = Urljoin(PageUrl, soup[i].href)

\* C17 (amended): the links of a page are in document order, one entry
\* for every file anchor: the k-th link is the resolved href of the k-th
\* file anchor, so a URL occurs as often as file anchors resolve to it.
C17_LinksOrderedPerAnchor ==
    epc = "returned" =>
        LET F == FileAnchorsAt(soup) IN
        /\ Len(links) = Cardinality(F)
        /\ \A k \in 1..Len(links) :
              links[k] = Urljoin(PageUrl, soup[Nth(F, k)].href)

\* Two anchors with one file href and, between them, another file anchor:
\* the URL is listed twice, in document order.
C17_Witness ==
    /\ epc = "returned"
    /\ Len(soup) = 3
    /\ soup[1].href = << "/files", "/a.pdf" >>
    /\ soup[2].href = << "b.csv" >>
    /\ soup[3].href = << "/files", "/a.pdf" >>
    /\ Len(links) = 3
    /\ links[1] = links[3]
    /\ links[2] = << "https:", "//host", "/documents", "/b.csv" >>

\* All the text inside an element, child elements included.
RECURSIVE VisibleText(_)
VisibleText(children) ==
    IF children = <<>> THEN <<>>
    ELSE children[1].s \o VisibleText(Tail(children))

HasNextText(el) ==
    el.tag = "a" /\ Contains(NextWord, Lower(VisibleText(el.children)))

HasNextClassToken(el) ==
    /\ el.tag = "a"
    /\ el.class.present
    /\ \E i \in 1..Len(el.class.tokens) :
          Contains(NextWord, Lower(el.class.tokens[i]))

\* The element the three rules choose, tried in their order: rel=next (a
\* link element, else an anchor), visible text, class.
RuleChoice(doc) ==
    OrElse(OrElse(FindRelLink(doc), FindRelAnchor(doc)),
           OrElse(FindFirst({ i \in 1..Len(doc) : HasNextText(doc[i]) }),
                  FindFirst({ i \in 1..Len(doc) : HasNextClassToken(doc[i]) })))

\* C18: the next page is found by three rules in a fixed order, the first
\* that matches winning: a link or anchor with rel=next, then the first
\* anchor whose visible text contains "next" in any case, then the first
\* anchor whose class does; the URL is the chosen element's href resolved
\* against the page URL (none if it has no href to resolve), and there is
\* none when no rule matches.
C18_NextByThreeRules ==
    epc = "returned" =>
        LET i == RuleChoice(soup) IN
        next_url = IF i # 0 /\ soup[i].href # NoAttr /\ soup[i].href # <<>>
                   THEN Urljoin(PageUrl, soup[i].href)
                   ELSE NoAttr

\* Every shape has_next_class can be called with.
ClassShapes ==
    { ClassNone,
      ClassStr(cNEXT), ClassStr(cPg), ClassStr(<<>>),
      ClassList(<<>>), ClassList(<< cPg >>), ClassList(<< cPg, cNEXT >>),
      ClassList(<< << "n", "e" >>, << "x", "t" >> >>) }

\* The anchors with neither class nor href, and the page without them.
IsBare(el) == el.tag = "a" /\ ~el.class.present /\ el.href = NoAttr
IsNotBare(el) == ~IsBare(el)

\* C19: the class rule copes with every shape of the class attribute: the
\* test never raises, an absent class (None) never qualifies, a string or
\* a list of tokens qualifies exactly when it contains "next" in some
\* case; so parsing never raises, and a page with anchors that have no
\* class and no href yields the links and the next page it yields without
\* them.
C19_ClassRuleTotal ==
    /\ \A c \in ClassShapes :
          /\ ~HasNextClass(c).raises
          /\ HasNextClass(c).value =
                /\ c.shape # "none"
                /\ \E i \in 1..Len(c.val) : Contains(NextWord, Lower(c.val[i]))
    /\ epc # "parse_raised"
    /\ epc = "returned" =>
          /\ links = FileLinks(SelectSeq(soup, IsNotBare),
                               Len(SelectSeq(soup, IsNotBare)))
          /\ (\A i \in 1..Len(soup) : IsBare(soup[i]) => ~RelMatches(soup[i]))
                => next_url = NextUrl(SelectSeq(soup, IsNotBare))

\* A file anchor, an anchor without class and href, and an anchor the
\* class rule alone matches: the class test ran on None and the page gave
\* its link and its next page.
C19_Witness ==
    /\ epc = "returned"
    /\ Len(soup) = 3
    /\ soup[1].href = << "/files", "/a.pdf" >>
    /\ soup[2] = BareAnchor
    /\ soup[3] = ClassAnchor
    /\ links = << << "https:", "//host", "/files", "/a.pdf" >> >>
    /\ next_url = << "https:", "//host", "/files", "?page=2" >>

C21_DownloadsInUrlOrder ==
    [][requests' # requests =>
          LET url == CHOOSE u \in FileURLs : requests'[u] # requests[u] IN
          /\ \A v \in FileURLs : requests[v] > 0 => UrlLess(v, url)
          /\ \A v \in file_urls : UrlLess(v, url) => requests[v] > 0
          /\ saved' # saved => saved' = Append(saved, result'[url])]_vars

\* The first page listed the greater URL and the second page the smaller
\* one; the smaller one was requested first and both entries are in URL
\* order.
C21_Witness ==
    /\ pc = "done"
    /\ site[1].links = { <<2, 1>> }
    /\ site[2].links = { <<1, 1>> }
    /\ served[<<1, 1>>] # served[<<2, 1>>]
    /\ files0 = <<>>
    /\ saved = << result[<<1, 1>>], result[<<2, 1>>] >>
    /\ Len(saved) = 2

\* C22: a download whose hash is not in the index and whose derived file
\* name is taken is saved under that name with the smallest suffix _1, _2,
\* ... that is free; the file of the derived name, like every other file,
\* stays as it was.  (A download whose derived name is free is saved under
\* it.)
C22_SmallestFreeSuffix ==
    [][written' # written =>
          LET name == SafeFilenameFromUrl(Head(todo))
              target == CHOOSE t \in written' : t \notin written
          IN  /\ target \notin DOMAIN files
              /\ \A n \in DOMAIN files : n \in DOMAIN files' /\ files'[n] = files[n]
              /\ IF name \in DOMAIN files
                 THEN \E i \in 1..(Cardinality(DOMAIN files) + 1) :
                         /\ target = Append(name, i)
                         /\ \A j \in 1..(i - 1) : Append(name, j) \in DOMAIN files
                 ELSE target = name]_vars

\* The directory held a.pdf and a_1.pdf; a download with another content
\* and the name a.pdf was saved as a_2.pdf and the two files are unchanged.
C22_Witness ==
    /\ DOMAIN files0 = { <<1>>, <<1, 1>> }
    /\ <<1, 2>> \in written
    /\ files[<<1>>] = files0[<<1>>]
    /\ files[<<1, 1>>] = files0[<<1, 1>>]
    /\ files[<<1, 2>>].content # files0[<<1>>].content

\* C24: a run is sequential and has two phases.  A step issues at most one
\* network request; a page is fetched only during the walk and before any
\* download was requested; a download is requested only in the download
\* loop, when the walk is over.
C24_WalkThenDownloads ==
    [][LET fetched == { p \in Pages : fetches'[p] # fetches[p] }
           requested == { u \in FileURLs : requests'[u] # requests[u] }
       IN  /\ Cardinality(fetched) + Cardinality(requested) <= 1
           /\ \A p \in fetched :
                 /\ fetches'[p] = fetches[p] + 1
                 /\ pc = "walk"
                 /\ \A u \in FileURLs : requests[u] = 0
           /\ \A u \in requested :
                 /\ requests'[u] = requests[u] + 1
                 /\ pc = "download"
                 /\ ~WalkContinues(to_visit, pages_crawled, max_pages)]_vars

\* Two pages were fetched and then two files were requested.
C24_Witness ==
    /\ pc = "done"
    /\ \A p \in Pages : fetches[p] = 1
    /\ \A u \in FileURLs : requests[u] = 1
    /\ site[2].links # {}

\* C25: with pagination following disabled no next-page URL is enqueued:
\* the queue never holds anything but the start page, no other page is
\* fetched, the start page is fetched exactly once when max_pages >= 1, and
\* the collected URLs are the start page's file links, whatever its next
\* link is.
C25_NoPaginationOnlyStartPage ==
    ~follow_pagination =>
        /\ to_visit \in { <<>>, <<StartPage>> }
        /\ StartPage \in visited_pages => to_visit = <<>>
        /\ \A p \in Pages \ {StartPage} : fetches[p] = 0
        /\ (pc # "walk" /\ max_pages >= 1) => fetches[StartPage] = 1
        /\ file_urls = site[StartPage].links

\* The start page has file links and a next link to page 2; the run
\* returned having fetched the start page alone.
C25_Witness ==
    /\ ~follow_pagination
    /\ pc = "done"
    /\ site[StartPage] = [links |-> FileURLs, next |-> 2]
    /\ fetches = [p \in Pages |-> IF p = StartPage THEN 1 ELSE 0]
    /\ file_urls = FileURLs

\* C26: the queue of the walk never holds more than one URL and the URL
\* at its front is never a visited one, so the branch of the loop that
\* skips a visited URL is never taken.
C26_QueueAtMostOneUnvisited ==
    /\ Len(to_visit) <= 1
    /\ to_visit # <<>> => Head(to_visit) \notin visited_pages

\* Page 2 pointed back to the visited page 1: nothing was enqueued and the
\* walk is about to end below the page cap.
C26_Witness ==
    /\ pc = "walk"
    /\ site[1].next = 2
    /\ site[2].next = 1
    /\ visited_pages = Pages
    /\ to_visit = <<>>
    /\ pages_crawled < max_pages

\* C27: after a page fetch failed no further page is fetched in the run:
\* the queue is empty from then on, so at most one page fails, the walk
\* collects nothing more, and the downloads run on the links of the pages
\* fetched before it.
C27_WalkEndsAtFailedPage ==
    /\ [](failedPages # {} =>
            /\ to_visit = <<>>
            /\ Cardinality(failedPages) = 1
            /\ file_urls = UNION { site[p].links : p \in visited_pages \ failedPages })
    /\ [][failedPages # {} => fetches' = fetches /\ file_urls' = file_urls]_vars
    /\ []((pc = "done" /\ failedPages # {}) =>
            \A u \in file_urls : requests[u] = 1)

\* The fetch of page 2 failed below the page cap; the run returned after
\* requesting the links of page 1.
C27_Witness ==
    /\ pc = "done"
    /\ failedPages = {2}
    /\ pages_crawled < max_pages
    /\ site[1].links = FileURLs
    /\ \A u \in FileURLs : requests[u] = 1

\* C28: a run does not touch the files the directory held before it: at
\* every moment of the run each of them is there under its name with its
\* content (and its permissions), whatever the downloads return.
C28_OldFilesUntouched ==
    \A n \in DOMAIN files0 : n \in DOMAIN files /\ files[n] = files0[n]

\* The directory held a.pdf; the run wrote two more files with other
\* names, one of them with the content a.pdf has but could not be read for.
C28_Witness ==
    /\ pc = "done"
    /\ DOMAIN files0 = { <<1>> }
    /\ ~files0[<<1>>].readable
    /\ Cardinality(written) = 2
    /\ files[<<1>>] = files0[<<1>>]
    /\ \E n \in written : files[n].content = files0[<<1>>].content

\* C30: in the download phase every index entry hash -> path names a file
\* that is in the directory and has that hash, no two hashes share a path,
\* and an entry that is there is neither changed nor removed by a download.
C30_IndexValidAndStable ==
    /\ [](pc \in {"download", "done"} =>
            /\ \A h \in DOMAIN existing_hashes :
                  /\ existing_hashes[h] \in DOMAIN files
                  /\ Sha256(files[existing_hashes[h]].content) = h
            /\ \A h, k \in DOMAIN existing_hashes :
                  existing_hashes[h] = existing_hashes[k] => h = k)
    /\ [][pc = "download" =>
            \A h \in DOMAIN existing_hashes :
               /\ h \in DOMAIN existing_hashes'
               /\ existing_hashes'[h] = existing_hashes[h]]_vars

\* The index holds a preloaded entry and an entry added by a download.
C30_Witness ==
    /\ pc = "done"
    /\ Cardinality(DOMAIN existing_hashes) = 2
    /\ \E h \in DOMAIN existing_hashes : existing_hashes[h] \in DOMAIN files0
    /\ \E h \in DOMAIN existing_hashes : existing_hashes[h] \in written

=============================================================================
